---- MODULE Spec2Model ----
(***************************************************************************)
(* Model of the merge / publish relay server (src/unnamed/part_000).       *)
(*                                                                         *)
(* Five families of processes share the process-wide state:                *)
(*   Callers    invocations of getAccessToken / getTtAccessToken           *)
(*   MergeReqs  POST /merge requests                                       *)
(*   PostReqs   POST /tiktok/post requests (plus the idem sweep timer)     *)
(*   WakeReqs   GET /wake requests                                         *)
(*   StatusReqs GET /tiktok/status requests                                *)
(* Every await of the source is a step boundary; the code between two      *)
(* awaits runs atomically (single-threaded event loop).                    *)
(* Time is Date.now() in milliseconds.                                     *)
(***************************************************************************)
EXTENDS Integers, Naturals, Sequences, FiniteSets, TLC

VARIABLES
    now,            \* Date.now(), ms
    env,            \* process environment: [secret, tt] (APP_SECRET set, TikTok triple set)
    dbxTokenCache,  \* { accessToken, expiresAt }
    net,            \* network calls made so far: [dbx, tt, init] (token exchanges, publish-init)
    lastRefresh,    \* history: the last successful Dropbox exchange [at, ttl, token]
    ttIssued,       \* history: the last successful getTtAccessToken of Callers [at, ttl, token]
    callers,        \* token-function invocations
    mreq,           \* POST /merge requests
    disk,           \* temp files present in TEMP_DIR (set of file ids)
    fileLog,        \* history: per temp file, the number of unlinks that removed it
    preq,           \* POST /tiktok/post requests
    idem,           \* the idempotency Map: key -> [publish_id, at]
    nextSweep,      \* time at which the setInterval sweep fires next
    wreq,           \* GET /wake requests
    sreq            \* GET /tiktok/status requests

tokenVars == <<dbxTokenCache, net, lastRefresh, ttIssued>>
mergeVars == <<mreq, disk, fileLog>>
postVars  == <<preq, idem, nextSweep>>
routeVars == <<wreq, sreq>>
vars == <<now, env, dbxTokenCache, net, lastRefresh, ttIssued, callers,
          mreq, disk, fileLog, preq, idem, nextSweep, wreq, sreq>>

(* ------------------------------ bounds -------------------------------- *)
NumCallers == 2
MaxTokenTicks == 4
NumMerge == 1
MaxChunks == 1
NumPost == 2
NumKeys == 2
MaxPostTicks == 2
NumWake == 2
NumStatus == 1
NumConcurrent == 2
MaxRouteRequests == 3
\* requests on the routes other than /tiktok/post while the map is observed
MaxOtherRoutes == 1
\* /tiktok/post requests while the map is observed
NumSolo == 1

Callers == 1..NumCallers

(* -------------------------- program constants ------------------------- *)
ExpiryMarginMs == 60000
DefaultExpiresIn == 14400
MsPerSecond == 1000

\* step of the clock while token calls are observed (30 s)
TokenTickMs == 30 * MsPerSecond

\* expires_in values the token endpoint may report (0: the field is absent)
ReportedTtls == {0, 90, 120, 150}
\* the clock-free views of the requests let the endpoint leave expires_in out
UnreportedTtl == {0}

NoToken == 0

(* ------------------------- Credential cache --------------------------- *)

\* data.expires_in || 14400
ExpiresInOrDefault(e) == IF e = 0 THEN DefaultExpiresIn ELSE e

\* a cache test whose margin has one zero too many (600_000)
CacheHit_WideMargin(cache, t) ==
    /\ cache.accessToken # NoToken
    /\ t < cache.expiresAt - 10 * ExpiryMarginMs

\* dbxTokenCache.accessToken && now < dbxTokenCache.expiresAt - 60_000
CacheHit(cache, t) ==
    /\ cache.accessToken # NoToken
    /\ t < cache.expiresAt - ExpiryMarginMs

\* an update that never lets the expiry move backwards: the token of this
\* exchange may end up beside the expiry of an earlier one
RefreshedCache_KeepLaterExpiry(tok, t, ttl) ==
    [accessToken |-> tok,
     expiresAt |-> IF dbxTokenCache.expiresAt > t + ExpiresInOrDefault(ttl) * MsPerSecond
                     THEN dbxTokenCache.expiresAt
                     ELSE t + ExpiresInOrDefault(ttl) * MsPerSecond]

\* the two assignments after a successful exchange
RefreshedCache(tok, t, ttl) ==
    [accessToken |-> tok, expiresAt |-> t + ExpiresInOrDefault(ttl) * MsPerSecond]

\* history record of a successful exchange
Issue(tok, t, ttl) == [at |-> t, ttl |-> ttl, token |-> tok]
NoIssue == [at |-> -1, ttl |-> 0, token |-> NoToken]

\* whether the token of history record h is more than 60 s before its expiry at t
StillValid(h, t) ==
    /\ h.at >= 0
    /\ t < h.at + ExpiresInOrDefault(h.ttl) * MsPerSecond - ExpiryMarginMs

IdleCaller ==
    [pc |-> "idle", prov |-> "none", startedAt |-> -1, exchanged |-> FALSE,
     xid |-> 0, result |-> NoToken, ref |-> NoIssue]

\* invocations are interchangeable: they are numbered in the order they start
CanStart(c) ==
    /\ callers[c].pc = "idle"
    /\ \A d \in Callers : d < c => callers[d].pc # "idle"

\* getAccessToken(): the synchronous part up to the await of axios.post
GetAccessTokenCall(c) ==
    /\ CanStart(c)
    /\ IF CacheHit(dbxTokenCache, now)
         THEN /\ callers' = [callers EXCEPT ![c] =
                    [@ EXCEPT !.pc = "done", !.prov = "dbx", !.startedAt = now,
                              !.result = dbxTokenCache.accessToken, !.ref = lastRefresh]]
              /\ net' = net
         ELSE /\ callers' = [callers EXCEPT ![c] =
                    [@ EXCEPT !.pc = "wait", !.prov = "dbx", !.startedAt = now,
                              !.exchanged = TRUE, !.xid = net.dbx + 1, !.ref = lastRefresh]]
              /\ net' = [net EXCEPT !.dbx = @ + 1]
    /\ UNCHANGED <<now, env, routeVars, dbxTokenCache, lastRefresh, ttIssued, mergeVars, postVars>>

\* the exchange answers 2xx: cache overwritten, token returned
GetAccessTokenOk(c, ttl) ==
    /\ callers[c].pc = "wait" /\ callers[c].prov = "dbx"
    /\ LET tok == callers[c].xid
       IN /\ dbxTokenCache' = RefreshedCache(tok, now, ttl)
          /\ lastRefresh' = Issue(tok, now, ttl)
          /\ callers' = [callers EXCEPT ![c] = [@ EXCEPT !.pc = "done", !.result = tok]]
    /\ UNCHANGED <<now, env, routeVars, net, ttIssued, mergeVars, postVars>>

\* a catch block that drops the cached token before it rethrows
CacheAfterFailure_Cleared(cache) == [accessToken |-> NoToken, expiresAt |-> 0]

\* the catch block of getAccessToken: console.error and throw, no assignment
CacheAfterFailure(cache) == cache

\* the exchange fails (non-2xx, timeout): logged and rethrown
GetAccessTokenErr(c) ==
    /\ callers[c].pc = "wait" /\ callers[c].prov = "dbx"
    /\ callers' = [callers EXCEPT ![c] = [@ EXCEPT !.pc = "err"]]
    /\ dbxTokenCache' = CacheAfterFailure(dbxTokenCache)
    /\ UNCHANGED <<now, env, routeVars, net, lastRefresh, ttIssued, mergeVars, postVars>>

\* getTtAccessToken(): throws when the env triple is missing, else always posts
GetTtAccessTokenCall(c) ==
    /\ CanStart(c)
    /\ IF ~env.tt
         THEN /\ callers' = [callers EXCEPT ![c] =
                    [@ EXCEPT !.pc = "err", !.prov = "tt", !.startedAt = now, !.ref = ttIssued]]
              /\ net' = net
         ELSE /\ callers' = [callers EXCEPT ![c] =
                    [@ EXCEPT !.pc = "wait", !.prov = "tt", !.startedAt = now,
                              !.exchanged = TRUE, !.xid = net.tt + 1, !.ref = ttIssued]]
              /\ net' = [net EXCEPT !.tt = @ + 1]
    /\ UNCHANGED <<now, env, routeVars, dbxTokenCache, lastRefresh, ttIssued, mergeVars, postVars>>

GetTtAccessTokenOk(c, ttl) ==
    /\ callers[c].pc = "wait" /\ callers[c].prov = "tt"
    /\ LET tok == callers[c].xid
       IN /\ ttIssued' = Issue(tok, now, ttl)
          /\ callers' = [callers EXCEPT ![c] = [@ EXCEPT !.pc = "done", !.result = tok]]
    /\ UNCHANGED <<now, env, routeVars, dbxTokenCache, net, lastRefresh, mergeVars, postVars>>

GetTtAccessTokenErr(c) ==
    /\ callers[c].pc = "wait" /\ callers[c].prov = "tt"
    /\ callers' = [callers EXCEPT ![c] = [@ EXCEPT !.pc = "err"]]
    /\ UNCHANGED <<now, env, routeVars, tokenVars, mergeVars, postVars>>

\* the clock advances between events
TokenTick ==
    /\ now + TokenTickMs <= MaxTokenTicks * TokenTickMs
    /\ now' = now + TokenTickMs
    /\ UNCHANGED <<env, routeVars, tokenVars, callers, mergeVars, postVars>>

(* ============================ POST /merge ============================= *)
MergeReqs == 1..NumMerge

NoFile == 0
Roles == <<"v", "a", "m">>

\* a name made of the time alone: requests that reach the same stage in the
\* same millisecond get the same name
TmpPath_TimeOnly(r, role) ==
    CHOOSE i \in 1..3 : Roles[i] = role

\* tmpPath(): a name no other call returns (time prefix plus random UUID)
TmpPath(r, role) ==
    3 * (r - 1) + (CHOOSE i \in 1..3 : Roles[i] = role)

FileIds == {TmpPath(r, Roles[i]) : r \in MergeReqs, i \in 1..3}

PostReqs == 1..NumPost
Keys == 1..NumKeys
NoKey == 0

\* tmpPath() of a /tiktok/post request
PostTmpPath(p) == 3 * NumMerge + p
PostFileIds == {PostTmpPath(p) : p \in PostReqs}
AllFileIds == FileIds \cup PostFileIds

\* how downloadToFile / downloadViaDropbox classify a source reference
UrlKinds == {"http", "dbxPath", "dbxLink"}

\* 150 * 1024 * 1024
UploadLimit == 157286400
MergedSizes == {UploadLimit - 1, UploadLimit, UploadLimit + 1}

\* how a merged file of the given size stands to the 150MB ceiling
SizeClass(size) == IF size > 150 * 1024 * 1024 THEN "over" ELSE "within"

\* a size test that also turns away a file of exactly the limit
TooLarge_Inclusive(size) == size >= UploadLimit

\* stats.size > 150 * 1024 * 1024
TooLarge(size) == size > UploadLimit

\* dropboxPath.endsWith(".mp4") ? dropboxPath : `${dropboxPath}/merged-${Date.now()}.mp4`
SavedPath(endsWithMp4, t) ==
    IF endsWithMp4 THEN <<"dropboxPath">> ELSE <<"dropboxPath", "merged", t>>

\* a header that repeats the dropboxPath of the body
HeaderValue_Body(rec) == <<"dropboxPath">>

\* res.setHeader("X-Dropbox-Path", savedPath)
HeaderValue(rec) == rec.savedPath

IdleMerge ==
    [pc |-> "idle", toFetch |-> <<>>, dropboxPath |-> FALSE, noStream |-> FALSE,
     hasVideo |-> FALSE, hasAudio |-> FALSE, cur |-> "none", kind |-> "none", xid |-> 0,
     vPath |-> NoFile, aPath |-> NoFile, mPath |-> NoFile,
     made |-> {}, todo |-> <<>>, pending |-> {}, chunks |-> 0,
     status |-> 0, uploads |-> 0, header |-> FALSE, closed |-> FALSE,
     started |-> <<>>, failed |-> "none", secretOk |-> FALSE,
     sized |-> "none", savedPath |-> <<>>, uploadedTo |-> <<>>, uploaded |-> FALSE,
     xDropboxPath |-> <<>>, ffmpeg |-> "none"]

\* requireSecret without the comparison of the header
GatePasses_Open(secretOk) == TRUE

\* requireSecret: next() or 401
GatePasses(secretOk) == ~env.secret \/ secretOk

\* req.get("X-App-Secret") === APP_SECRET can hold only when APP_SECRET is
\* set (it is null otherwise, and a header is a string or undefined)
HeaderPossible(secretOk) == secretOk => env.secret

IsPath(p) == p # NoFile

\* fs.promises.unlink(f).catch(() => {}): ENOENT and the like are swallowed
UnlinkedDisk(f) == disk \ {f}
UnlinkLogged(f) == [fileLog EXCEPT ![f] = @ + 1]

\* a catch block that answers with res.json alone, hence with status 200
Thrown_Ok200(rec) ==
    [rec EXCEPT !.pc = "done", !.status = 200, !.failed = rec.cur]

\* the catch block: unlink what vPath, aPath, mPath name, in that order, then 500
\* (rec.failed keeps the stage whose call threw)
Thrown(rec) ==
    LET paths == SelectSeq(<<rec.vPath, rec.aPath, rec.mPath>>, IsPath)
    IN IF paths = <<>>
         THEN [rec EXCEPT !.pc = "done", !.status = 500, !.failed = rec.cur]
         ELSE [rec EXCEPT !.pc = "catch", !.todo = paths, !.failed = rec.cur]

\* getDropboxClient() inside a request: cached token, or await the exchange
WithClient(rec, nextpc) ==
    IF CacheHit(dbxTokenCache, now)
      THEN [rec EXCEPT !.pc = nextpc]
      ELSE [rec EXCEPT !.pc = "tok", !.xid = net.dbx + 1]
NetWithClient ==
    IF CacheHit(dbxTokenCache, now) THEN net ELSE [net EXCEPT !.dbx = @ + 1]

\* downloadToFile(url): the part that runs before its first await.
\* rec.kind keeps the classification of the reference being downloaded,
\* rec.toFetch the references of the request still to be downloaded,
\* rec.started the stages the request has started so far.
DownloadBegin(rec, which, url) ==
    IF url = "http"
      THEN [rec EXCEPT !.pc = "get", !.cur = which, !.kind = url,
                       !.started = Append(@, which)]
      ELSE WithClient([rec EXCEPT !.cur = which, !.kind = url,
                                  !.started = Append(@, which)], "api")
NetDownloadBegin(url) ==
    IF url = "http" THEN net ELSE NetWithClient

\* a delivery that acknowledges before the cleanup has run
Deliver_AckFirst(rec) ==
    IF rec.noStream
      THEN [rec EXCEPT !.pc = "ns", !.status = 200, !.started = Append(@, "d"),
                       !.pending = {rec.vPath, rec.aPath, rec.mPath} \ {NoFile}]
      ELSE [rec EXCEPT !.pc = "streaming", !.status = 200, !.started = Append(@, "d")]

\* after merge and optional upload: the noStream cleanup or the byte stream
Deliver(rec) ==
    IF rec.noStream
      THEN [rec EXCEPT !.pc = "ns", !.started = Append(@, "d"),
                       !.pending = {rec.vPath, rec.aPath, rec.mPath} \ {NoFile}]
      ELSE [rec EXCEPT !.pc = "streaming", !.status = 200, !.started = Append(@, "d")]

\* a validation that tests the video reference only
MissingUrl_VideoOnly(videoUrl, audioUrl) == videoUrl = "none"

\* !videoUrl || !audioUrl
MissingUrl(videoUrl, audioUrl) == videoUrl = "none" \/ audioUrl = "none"

\* the handler up to its first await: gate, validation, start of the video download
MergeRequest(r, secretOk, videoUrl, audioUrl, dropboxPath, noStream) ==
    /\ mreq[r].pc = "idle"
    /\ \A q \in MergeReqs : q < r => mreq[q].pc # "idle"
    /\ HeaderPossible(secretOk)
    /\ LET rec == [mreq[r] EXCEPT !.toFetch = <<audioUrl>>, !.dropboxPath = dropboxPath,
                                  !.noStream = noStream, !.secretOk = secretOk,
                                  !.hasVideo = (videoUrl # "none"),
                                  !.hasAudio = (audioUrl # "none")]
       IN IF ~GatePasses(secretOk)
            THEN /\ mreq' = [mreq EXCEPT ![r] = [rec EXCEPT !.pc = "done", !.status = 401]]
                 /\ net' = net
            ELSE IF MissingUrl(videoUrl, audioUrl)
            THEN /\ mreq' = [mreq EXCEPT ![r] = [rec EXCEPT !.pc = "done", !.status = 400]]
                 /\ net' = net
            ELSE /\ mreq' = [mreq EXCEPT ![r] = DownloadBegin(rec, "v", videoUrl)]
                 /\ net' = NetDownloadBegin(videoUrl)
    /\ UNCHANGED <<now, env, routeVars, dbxTokenCache, lastRefresh, ttIssued, callers, disk, fileLog, postVars>>

\* getAccessToken's exchange succeeded inside getDropboxClient
MergeTokenOk(r, ttl) ==
    /\ mreq[r].pc = "tok"
    /\ dbxTokenCache' = RefreshedCache(mreq[r].xid, now, ttl)
    /\ lastRefresh' = Issue(mreq[r].xid, now, ttl)
    /\ mreq' = [mreq EXCEPT ![r] =
                  [@ EXCEPT !.pc = IF mreq[r].cur = "u" THEN "stat" ELSE "api"]]
    /\ UNCHANGED <<now, env, routeVars, net, ttIssued, callers, disk, fileLog, postVars>>

MergeTokenErr(r) ==
    /\ mreq[r].pc = "tok"
    /\ mreq' = [mreq EXCEPT ![r] = Thrown(mreq[r])]
    /\ UNCHANGED <<now, env, routeVars, tokenVars, callers, disk, fileLog, postVars>>

CurUrl(r) == mreq[r].kind
CurFile(r) == TmpPath(r, mreq[r].cur)

\* sharingGetSharedLinkFile answered (the file is then written in one pass), or
\* filesGetTemporaryLink answered (the link is then fetched)
DropboxApiOk(r) ==
    /\ mreq[r].pc = "api"
    /\ IF CurUrl(r) = "dbxLink"
         THEN /\ mreq' = [mreq EXCEPT ![r] =
                    [@ EXCEPT !.pc = "pipe", !.made = @ \cup {CurFile(r)}]]
              /\ disk' = disk \cup {CurFile(r)}
         ELSE /\ mreq' = [mreq EXCEPT ![r] = [@ EXCEPT !.pc = "get"]]
              /\ disk' = disk
    /\ UNCHANGED <<now, env, routeVars, tokenVars, callers, fileLog, postVars>>

DropboxApiErr(r) ==
    /\ mreq[r].pc = "api"
    /\ mreq' = [mreq EXCEPT ![r] = Thrown(mreq[r])]
    /\ UNCHANGED <<now, env, routeVars, tokenVars, callers, disk, fileLog, postVars>>

\* axios.get answered: createWriteStream(out) and the pipeline starts
HttpGetOk(r) ==
    /\ mreq[r].pc = "get"
    /\ mreq' = [mreq EXCEPT ![r] = [@ EXCEPT !.pc = "pipe", !.made = @ \cup {CurFile(r)}]]
    /\ disk' = disk \cup {CurFile(r)}
    /\ UNCHANGED <<now, env, routeVars, tokenVars, callers, fileLog, postVars>>

HttpGetErr(r) ==
    /\ mreq[r].pc = "get"
    /\ mreq' = [mreq EXCEPT ![r] = Thrown(mreq[r])]
    /\ UNCHANGED <<now, env, routeVars, tokenVars, callers, disk, fileLog, postVars>>

\* the download returned its path: vPath / aPath assigned, next stage started
DownloadDone(rec, r) ==
    IF rec.cur = "v"
      THEN DownloadBegin([rec EXCEPT !.vPath = TmpPath(r, "v"), !.toFetch = <<>>],
                         "a", Head(rec.toFetch))
      ELSE [rec EXCEPT !.aPath = TmpPath(r, "a"), !.pc = "merging", !.cur = "m",
                       !.kind = "none", !.started = Append(@, "m")]

\* pipeline / writeFile completed
PipeOk(r) ==
    /\ mreq[r].pc = "pipe"
    /\ mreq' = [mreq EXCEPT ![r] = DownloadDone(mreq[r], r)]
    /\ net' = IF mreq[r].cur = "v" THEN NetDownloadBegin(Head(mreq[r].toFetch)) ELSE net
    /\ UNCHANGED <<now, env, routeVars, dbxTokenCache, lastRefresh, ttIssued, callers, disk, fileLog, postVars>>

\* pipeline / writeFile rejected: the partly written file stays, the path is lost
PipeErr(r) ==
    /\ mreq[r].pc = "pipe"
    /\ mreq' = [mreq EXCEPT ![r] = Thrown(mreq[r])]
    /\ UNCHANGED <<now, env, routeVars, tokenVars, callers, disk, fileLog, postVars>>

\* ffmpeg opens its output file
FfmpegWrite(r) ==
    /\ mreq[r].pc = "merging"
    /\ TmpPath(r, "m") \notin mreq[r].made
    /\ mreq' = [mreq EXCEPT ![r] = [@ EXCEPT !.made = @ \cup {TmpPath(r, "m")}]]
    /\ disk' = disk \cup {TmpPath(r, "m")}
    /\ UNCHANGED <<now, env, routeVars, tokenVars, callers, fileLog, postVars>>

\* a merge that takes the presence of the output file for success
OnFfmpegError_FileDecides(rec, out) ==
    IF out \in disk
      THEN Deliver([rec EXCEPT !.ffmpeg = "error", !.mPath = out])
      ELSE Thrown([rec EXCEPT !.ffmpeg = "error"])

\* .on("error", reject): mergeAV rejects, whatever ffmpeg has written
\* (rec.ffmpeg keeps the event ffmpeg emitted)
OnFfmpegError(rec, out) == Thrown([rec EXCEPT !.ffmpeg = "error"])

\* ffmpeg's "error" event: reject
FfmpegError(r) ==
    /\ mreq[r].pc = "merging"
    /\ mreq' = [mreq EXCEPT ![r] = OnFfmpegError(mreq[r], TmpPath(r, "m"))]
    /\ UNCHANGED <<now, env, routeVars, tokenVars, callers, disk, fileLog, postVars>>

\* ffmpeg's "end" event: resolve(outPath); then upload (endsWithMp4: what
\* the test of the given dropboxPath finds), or delivery
FfmpegEnd(r, endsWithMp4) ==
    /\ mreq[r].pc = "merging"
    /\ TmpPath(r, "m") \in mreq[r].made
    /\ (~mreq[r].dropboxPath => ~endsWithMp4)
    /\ LET rec == [mreq[r] EXCEPT !.mPath = TmpPath(r, "m"), !.ffmpeg = "end"]
       IN IF rec.dropboxPath
            THEN /\ mreq' = [mreq EXCEPT ![r] =
                       WithClient([rec EXCEPT !.cur = "u", !.started = Append(@, "u"),
                                              !.savedPath = SavedPath(endsWithMp4, now)],
                                  "stat")]
                 /\ net' = NetWithClient
            ELSE /\ mreq' = [mreq EXCEPT ![r] = Deliver(rec)]
                 /\ net' = net
    /\ UNCHANGED <<now, env, routeVars, dbxTokenCache, lastRefresh, ttIssued, callers, disk, fileLog, postVars>>

\* uploadToDropbox: stat, the size test, readFile, then filesUpload is called
\* (rec.sized keeps on which side of the ceiling the file was found)
UploadStat(r, size) ==
    /\ mreq[r].pc = "stat"
    /\ mreq' = [mreq EXCEPT ![r] =
                  IF TooLarge(size)
                    THEN Thrown([@ EXCEPT !.sized = SizeClass(size)])
                    ELSE [@ EXCEPT !.pc = "upload", !.uploads = @ + 1,
                                   !.sized = SizeClass(size),
                                   !.uploadedTo = mreq[r].savedPath]]
    /\ UNCHANGED <<now, env, routeVars, tokenVars, callers, disk, fileLog, postVars>>

\* filesUpload resolved: X-Dropbox-Path is set, then delivery
UploadOk(r) ==
    /\ mreq[r].pc = "upload"
    /\ mreq' = [mreq EXCEPT ![r] =
                  Deliver([@ EXCEPT !.uploaded = TRUE, !.header = TRUE,
                                    !.xDropboxPath = HeaderValue(mreq[r])])]
    /\ UNCHANGED <<now, env, routeVars, tokenVars, callers, disk, fileLog, postVars>>

UploadErr(r) ==
    /\ mreq[r].pc = "upload"
    /\ mreq' = [mreq EXCEPT ![r] = Thrown(mreq[r])]
    /\ UNCHANGED <<now, env, routeVars, tokenVars, callers, disk, fileLog, postVars>>

\* filesUpload resolved, but savedPath holds a character that setHeader
\* rejects (ERR_INVALID_CHAR): the TypeError lands in the catch block
UploadOkHeaderThrows(r) ==
    /\ mreq[r].pc = "upload"
    /\ mreq' = [mreq EXCEPT ![r] = Thrown([@ EXCEPT !.uploaded = TRUE])]
    /\ UNCHANGED <<now, env, routeVars, tokenVars, callers, disk, fileLog, postVars>>

\* what the handler does once Promise.allSettled of the three unlinks resolves
AfterNoStreamCleanup(rec) == [rec EXCEPT !.pc = "done", !.status = 200]

\* noStream: one of the three concurrent unlinks completes; after the last
\* one the JSON acknowledgment is sent
NoStreamUnlink(r, f) ==
    /\ mreq[r].pc = "ns"
    /\ f \in mreq[r].pending
    /\ disk' = UnlinkedDisk(f)
    /\ fileLog' = UnlinkLogged(f)
    /\ LET rec == [mreq[r] EXCEPT !.pending = @ \ {f}]
       IN mreq' = [mreq EXCEPT ![r] =
                     IF rec.pending = {} THEN AfterNoStreamCleanup(rec) ELSE rec]
    /\ UNCHANGED <<now, env, routeVars, tokenVars, callers, postVars>>

\* the read stream delivers one more chunk of the merged file to the response
StreamChunk(r) ==
    /\ mreq[r].pc = "streaming"
    /\ mreq[r].chunks < MaxChunks
    /\ mreq' = [mreq EXCEPT ![r] = [@ EXCEPT !.chunks = @ + 1]]
    /\ UNCHANGED <<now, env, routeVars, tokenVars, callers, disk, fileLog, postVars>>

\* the read stream reaches the end of the file: "end", autoClose, "close";
\* the close handler starts unlinking
StreamEnd(r) ==
    /\ mreq[r].pc = "streaming"
    /\ mreq[r].chunks > 0
    /\ mreq' = [mreq EXCEPT ![r] =
                  [@ EXCEPT !.pc = "close",
                            !.todo = SelectSeq(<<mreq[r].vPath, mreq[r].aPath, mreq[r].mPath>>, IsPath)]]
    /\ UNCHANGED <<now, env, routeVars, tokenVars, callers, disk, fileLog, postVars>>

\* a dropped connection that lands in the catch block of the handler
SourceAfterDestClose_Catch(rec) == Thrown([rec EXCEPT !.closed = TRUE])

\* what stream.pipe(res) does to the read stream when res closes early:
\* the source is unpiped and paused, it is not destroyed and emits no "close"
SourceAfterDestClose(rec) == [rec EXCEPT !.pc = "stalled", !.closed = TRUE]

\* the client drops the connection while the file is being streamed
ClientDisconnect(r) ==
    /\ mreq[r].pc = "streaming"
    /\ mreq' = [mreq EXCEPT ![r] = SourceAfterDestClose(mreq[r])]
    /\ UNCHANGED <<now, env, routeVars, tokenVars, callers, disk, fileLog, postVars>>

\* the next awaited unlink of the catch block or of the close handler
\* completes; after the last one of the catch block the 500 is sent
CleanupUnlink(r) ==
    /\ mreq[r].pc \in {"catch", "close"}
    /\ mreq[r].todo # <<>>
    /\ disk' = UnlinkedDisk(Head(mreq[r].todo))
    /\ fileLog' = UnlinkLogged(Head(mreq[r].todo))
    /\ LET rec == [mreq[r] EXCEPT !.todo = Tail(@)]
       IN mreq' = [mreq EXCEPT ![r] =
                     IF rec.todo # <<>> THEN rec
                     ELSE IF rec.pc = "catch"
                            THEN [rec EXCEPT !.pc = "done", !.status = 500]
                            ELSE [rec EXCEPT !.pc = "done"]]
    /\ UNCHANGED <<now, env, routeVars, tokenVars, callers, postVars>>

(* ============================ POST /tiktok/post ======================== *)
\* 6 * 60 * 60 * 1000
RetentionMs == 21600000
\* 30 * 60 * 1000
SweepIntervalMs == 1800000
\* step of the clock while publish requests are observed (10 min)
PostTickMs == 600000
\* the clock moves by 10 minutes or by 6 hours
PostTickSteps == {PostTickMs, RetentionMs}

NoPublish == 0

IdlePost ==
    [pc |-> "idle", key |-> NoKey, status |-> 0, cached |-> FALSE, age |-> 0,
     publish_id |-> NoPublish, pub |-> NoPublish, inits |-> 0, xid |-> 0,
     localPath |-> NoFile, made |-> {}, secretOk |-> FALSE, retry |-> FALSE,
     setAt |-> -1]

\* idem.has(idemKey) behind the test of idemKey
Recorded(key) == key # NoKey /\ key \in DOMAIN idem

\* history: a call carrying this key arrives within six hours of the start
\* of the process after an earlier call with the same key was answered 500
\* although its publish-init had succeeded
RetryAfterInit(key) ==
    /\ key # NoKey
    /\ now <= RetentionMs
    /\ \E q \in PostReqs :
          /\ preq[q].key = key /\ preq[q].status = 500
          /\ preq[q].pub # NoPublish

\* an insert that rebuilds the map from the new entry alone
IdemSet_Replace(key, publish_id) ==
    [k \in {key} |-> [publish_id |-> publish_id, at |-> now]]

\* idem.set(idemKey, { publish_id, at: Date.now() })
IdemSet(key, publish_id) ==
    [k \in DOMAIN idem \cup {key} |->
        IF k = key THEN [publish_id |-> publish_id, at |-> now] ELSE idem[k]]

\* a sweep that deletes only after twice the window
SweptAt_Late(t) ==
    [k \in {j \in DOMAIN idem : ~(t - idem[j].at > 2 * RetentionMs)} |-> idem[k]]

\* a sweep that empties the map
SweptAt_Clear(t) == [k \in {j \in DOMAIN idem : FALSE} |-> idem[k]]

\* the setInterval callback running at time t: delete every entry with
\* now - v.at > 6 h
SweptAt(t) == [k \in {j \in DOMAIN idem : ~(t - idem[j].at > RetentionMs)} |-> idem[k]]

\* a handler without the finally block: the catch block answers and that is all
PostThrown_NoFinally(rec) == [rec EXCEPT !.status = 500, !.pc = "done"]

\* catch: 500; finally: the unlink of localPath is started, not awaited
PostThrown(rec) ==
    [rec EXCEPT !.status = 500,
                !.pc = IF rec.localPath # NoFile THEN "unlink" ELSE "done"]

\* the handler up to its first await: gate, validation, lookup, getDropboxClient
PostRequest(p, secretOk, fields, key) ==
    /\ preq[p].pc = "idle"
    /\ \A q \in PostReqs : q < p => preq[q].pc # "idle"
    /\ HeaderPossible(secretOk)
    /\ LET rec == [preq[p] EXCEPT !.key = key, !.secretOk = secretOk,
                                  !.retry = RetryAfterInit(key)]
       IN IF ~GatePasses(secretOk)
            THEN /\ preq' = [preq EXCEPT ![p] = [rec EXCEPT !.pc = "done", !.status = 401]]
                 /\ net' = net
            ELSE IF ~fields \/ ~env.tt
            THEN /\ preq' = [preq EXCEPT ![p] = [rec EXCEPT !.pc = "done", !.status = 400]]
                 /\ net' = net
            ELSE IF Recorded(key)
            THEN /\ preq' = [preq EXCEPT ![p] =
                       [rec EXCEPT !.pc = "done", !.status = 200, !.cached = TRUE,
                                   !.publish_id = idem[key].publish_id,
                                   !.age = now - idem[key].at]]
                 /\ net' = net
            ELSE /\ preq' = [preq EXCEPT ![p] = WithClient(rec, "link")]
                 /\ net' = NetWithClient
    /\ UNCHANGED <<now, env, routeVars, dbxTokenCache, lastRefresh, ttIssued, callers, mergeVars,
                   idem, nextSweep>>

PostTokenOk(p, ttl) ==
    /\ preq[p].pc = "tok"
    /\ dbxTokenCache' = RefreshedCache(preq[p].xid, now, ttl)
    /\ lastRefresh' = Issue(preq[p].xid, now, ttl)
    /\ preq' = [preq EXCEPT ![p] = [@ EXCEPT !.pc = "link"]]
    /\ UNCHANGED <<now, env, routeVars, net, ttIssued, callers, mergeVars, idem, nextSweep>>

PostTokenErr(p) ==
    /\ preq[p].pc = "tok"
    /\ preq' = [preq EXCEPT ![p] = PostThrown(preq[p])]
    /\ UNCHANGED <<now, env, routeVars, tokenVars, callers, mergeVars, idem, nextSweep>>

\* filesGetTemporaryLink resolved: localPath = tmpPath(ext), axios.get issued
PostLinkOk(p) ==
    /\ preq[p].pc = "link"
    /\ preq' = [preq EXCEPT ![p] = [@ EXCEPT !.pc = "get", !.localPath = PostTmpPath(p)]]
    /\ UNCHANGED <<now, env, routeVars, tokenVars, callers, mergeVars, idem, nextSweep>>

PostLinkErr(p) ==
    /\ preq[p].pc = "link"
    /\ preq' = [preq EXCEPT ![p] = PostThrown(preq[p])]
    /\ UNCHANGED <<now, env, routeVars, tokenVars, callers, mergeVars, idem, nextSweep>>

\* axios.get answered: createWriteStream(localPath), pipeline started
PostGetOk(p) ==
    /\ preq[p].pc = "get"
    /\ preq' = [preq EXCEPT ![p] = [@ EXCEPT !.pc = "pipe", !.made = @ \cup {PostTmpPath(p)}]]
    /\ disk' = disk \cup {PostTmpPath(p)}
    /\ UNCHANGED <<now, env, routeVars, tokenVars, callers, mreq, fileLog, idem, nextSweep>>

PostGetErr(p) ==
    /\ preq[p].pc = "get"
    /\ preq' = [preq EXCEPT ![p] = PostThrown(preq[p])]
    /\ UNCHANGED <<now, env, routeVars, tokenVars, callers, mergeVars, idem, nextSweep>>

\* pipeline and stat done: getTtAccessToken posts to the token endpoint
PostPipeOk(p) ==
    /\ preq[p].pc = "pipe"
    /\ preq' = [preq EXCEPT ![p] = [@ EXCEPT !.pc = "ttTok", !.xid = net.tt + 1]]
    /\ net' = [net EXCEPT !.tt = @ + 1]
    /\ UNCHANGED <<now, env, routeVars, dbxTokenCache, lastRefresh, ttIssued, callers, mergeVars,
                   idem, nextSweep>>

PostPipeErr(p) ==
    /\ preq[p].pc = "pipe"
    /\ preq' = [preq EXCEPT ![p] = PostThrown(preq[p])]
    /\ UNCHANGED <<now, env, routeVars, tokenVars, callers, mergeVars, idem, nextSweep>>

\* the TikTok token arrived (nothing of it is kept): ttInitDirectPost is invoked
PostTtTokenOk(p) ==
    /\ preq[p].pc = "ttTok"
    /\ preq' = [preq EXCEPT ![p] = [@ EXCEPT !.pc = "init", !.inits = @ + 1,
                                              !.xid = net.init + 1]]
    /\ net' = [net EXCEPT !.init = @ + 1]
    /\ UNCHANGED <<now, env, routeVars, dbxTokenCache, lastRefresh, ttIssued, callers, mergeVars,
                   idem, nextSweep>>

PostTtTokenErr(p) ==
    /\ preq[p].pc = "ttTok"
    /\ preq' = [preq EXCEPT ![p] = PostThrown(preq[p])]
    /\ UNCHANGED <<now, env, routeVars, tokenVars, callers, mergeVars, idem, nextSweep>>

\* publish-init answered { publish_id, upload_url }: ttUpload starts.
\* The platform hands out a new publish_id with every init (xid numbers the
\* external call the request is waiting for).
PostInitOk(p) ==
    /\ preq[p].pc = "init"
    /\ preq' = [preq EXCEPT ![p] = [@ EXCEPT !.pc = "upload", !.pub = preq[p].xid]]
    /\ UNCHANGED <<now, env, routeVars, tokenVars, callers, mergeVars, idem, nextSweep>>

PostInitErr(p) ==
    /\ preq[p].pc = "init"
    /\ preq' = [preq EXCEPT ![p] = PostThrown(preq[p])]
    /\ UNCHANGED <<now, env, routeVars, tokenVars, callers, mergeVars, idem, nextSweep>>

\* ttUpload resolved: the record is set when a key was given (setAt keeps
\* the time of the insert), 200 is sent, and finally starts the unlink
PostUploadOk(p) ==
    /\ preq[p].pc = "upload"
    /\ idem' = IF preq[p].key # NoKey THEN IdemSet(preq[p].key, preq[p].pub) ELSE idem
    /\ preq' = [preq EXCEPT ![p] =
                  [@ EXCEPT !.pc = "unlink", !.status = 200, !.publish_id = preq[p].pub,
                            !.setAt = IF preq[p].key # NoKey THEN now ELSE @]]
    /\ UNCHANGED <<now, env, routeVars, tokenVars, callers, mergeVars, nextSweep>>

PostUploadErr(p) ==
    /\ preq[p].pc = "upload"
    /\ preq' = [preq EXCEPT ![p] = PostThrown(preq[p])]
    /\ UNCHANGED <<now, env, routeVars, tokenVars, callers, mergeVars, idem, nextSweep>>

\* the unlink started by finally completes
PostUnlink(p) ==
    /\ preq[p].pc = "unlink"
    /\ disk' = UnlinkedDisk(preq[p].localPath)
    /\ fileLog' = UnlinkLogged(preq[p].localPath)
    /\ preq' = [preq EXCEPT ![p] = [@ EXCEPT !.pc = "done"]]
    /\ UNCHANGED <<now, env, routeVars, tokenVars, callers, mreq, idem, nextSweep>>

\* the clock steps taken to reach time t (long steps first)
TicksUsed(t) == (t \div RetentionMs) + ((t % RetentionMs) \div PostTickMs)

\* the last instant up to t at which the 30-minute timer fires
LastSweepDue(t) == (t \div SweepIntervalMs) * SweepIntervalMs

\* d ms pass without any request step: the sweeps that fall due run at their
\* due times (entries only age, so the last of them decides what is left)
PostTick(d) ==
    /\ TicksUsed(now) < MaxPostTicks
    /\ now' = now + d
    /\ IF LastSweepDue(now + d) >= nextSweep
         THEN /\ idem' = SweptAt(LastSweepDue(now + d))
              /\ nextSweep' = LastSweepDue(now + d) + SweepIntervalMs
         ELSE UNCHANGED <<idem, nextSweep>>
    /\ UNCHANGED <<env, routeVars, tokenVars, callers, mergeVars, preq>>

(* ============================== GET /wake ============================== *)
WakeReqs == 1..NumWake

\* dbx, tt: the state of the task started for each provider
\* ("none", "hit", "skip", "wait", "ok", "err")
IdleWake ==
    [pc |-> "idle", secretOk |-> FALSE, dbx |-> "none", tt |-> "none", xid |-> 0,
     status |-> 0, body |-> "none"]

\* a handler that awaits Promise.all(tasks): the first rejection lands in
\* the catch block, which answers 500 {ok: false, error}
WakeSettle_All(rec) ==
    IF rec.dbx = "err" \/ rec.tt = "err"
      THEN [rec EXCEPT !.pc = "done", !.status = 500, !.body = "error"]
      ELSE IF rec.dbx # "wait" /\ rec.tt # "wait"
      THEN [rec EXCEPT !.pc = "done", !.status = 200, !.body = "ok"]
      ELSE [rec EXCEPT !.pc = "settling"]

\* await Promise.allSettled(tasks); res.json({ ok: true })
WakeSettle(rec) ==
    IF rec.dbx # "wait" /\ rec.tt # "wait"
      THEN [rec EXCEPT !.pc = "done", !.status = 200, !.body = "ok"]
      ELSE [rec EXCEPT !.pc = "settling"]

\* the handler up to its await: gate, getAccessToken() started, and
\* getTtAccessToken() started when the TikTok triple is set
WakeRequest(w, secretOk) ==
    /\ wreq[w].pc = "idle"
    /\ \A q \in WakeReqs : q < w => wreq[q].pc # "idle"
    /\ HeaderPossible(secretOk)
    /\ LET rec == [wreq[w] EXCEPT !.secretOk = secretOk]
           hit == CacheHit(dbxTokenCache, now)
       IN IF ~GatePasses(secretOk)
            THEN /\ wreq' = [wreq EXCEPT ![w] = [rec EXCEPT !.pc = "done", !.status = 401]]
                 /\ net' = net
            ELSE /\ wreq' = [wreq EXCEPT ![w] =
                       WakeSettle([rec EXCEPT !.dbx = IF hit THEN "hit" ELSE "wait",
                                              !.xid = IF hit THEN 0 ELSE net.dbx + 1,
                                              !.tt = IF env.tt THEN "wait" ELSE "skip"])]
                 /\ net' = [net EXCEPT !.dbx = IF hit THEN @ ELSE @ + 1,
                                       !.tt = IF env.tt THEN @ + 1 ELSE @]
    /\ UNCHANGED <<now, env, dbxTokenCache, lastRefresh, ttIssued, callers, mergeVars,
                   postVars, sreq>>

\* the Dropbox exchange of the request answered 2xx: cache overwritten
WakeDbxOk(w, ttl) ==
    /\ wreq[w].dbx = "wait"
    /\ dbxTokenCache' = RefreshedCache(wreq[w].xid, now, ttl)
    /\ lastRefresh' = Issue(wreq[w].xid, now, ttl)
    /\ wreq' = [wreq EXCEPT ![w] = WakeSettle([@ EXCEPT !.dbx = "ok"])]
    /\ UNCHANGED <<now, env, net, ttIssued, callers, mergeVars, postVars, sreq>>

\* the Dropbox exchange failed: getAccessToken rethrows, the task rejects
WakeDbxErr(w) ==
    /\ wreq[w].dbx = "wait"
    /\ wreq' = [wreq EXCEPT ![w] = WakeSettle([@ EXCEPT !.dbx = "err"])]
    /\ UNCHANGED <<now, env, tokenVars, callers, mergeVars, postVars, sreq>>

\* the TikTok exchange answered: the token is returned to nobody
WakeTtOk(w) ==
    /\ wreq[w].tt = "wait"
    /\ wreq' = [wreq EXCEPT ![w] = WakeSettle([@ EXCEPT !.tt = "ok"])]
    /\ UNCHANGED <<now, env, tokenVars, callers, mergeVars, postVars, sreq>>

WakeTtErr(w) ==
    /\ wreq[w].tt = "wait"
    /\ wreq' = [wreq EXCEPT ![w] = WakeSettle([@ EXCEPT !.tt = "err"])]
    /\ UNCHANGED <<now, env, tokenVars, callers, mergeVars, postVars, sreq>>

(* ========================== GET /tiktok/status ========================= *)
StatusReqs == 1..NumStatus

IdleStatus == [pc |-> "idle", secretOk |-> FALSE, xid |-> 0, status |-> 0]

\* the handler up to its first await: gate, publish_id test, getTtAccessToken
\* (which throws at once when the TikTok triple is missing)
StatusRequest(s, secretOk, hasId) ==
    /\ sreq[s].pc = "idle"
    /\ \A q \in StatusReqs : q < s => sreq[q].pc # "idle"
    /\ HeaderPossible(secretOk)
    /\ LET rec == [sreq[s] EXCEPT !.secretOk = secretOk]
       IN IF ~GatePasses(secretOk)
            THEN /\ sreq' = [sreq EXCEPT ![s] = [rec EXCEPT !.pc = "done", !.status = 401]]
                 /\ net' = net
            ELSE IF ~hasId
            THEN /\ sreq' = [sreq EXCEPT ![s] = [rec EXCEPT !.pc = "done", !.status = 400]]
                 /\ net' = net
            ELSE IF ~env.tt
            THEN /\ sreq' = [sreq EXCEPT ![s] = [rec EXCEPT !.pc = "done", !.status = 500]]
                 /\ net' = net
            ELSE /\ sreq' = [sreq EXCEPT ![s] = [rec EXCEPT !.pc = "ttTok", !.xid = net.tt + 1]]
                 /\ net' = [net EXCEPT !.tt = @ + 1]
    /\ UNCHANGED <<now, env, dbxTokenCache, lastRefresh, ttIssued, callers, mergeVars,
                   postVars, wreq>>

\* the token arrived: ttGetPostStatus is called
StatusTtTokenOk(s) ==
    /\ sreq[s].pc = "ttTok"
    /\ sreq' = [sreq EXCEPT ![s] = [@ EXCEPT !.pc = "query"]]
    /\ UNCHANGED <<now, env, tokenVars, callers, mergeVars, postVars, wreq>>

StatusTtTokenErr(s) ==
    /\ sreq[s].pc = "ttTok"
    /\ sreq' = [sreq EXCEPT ![s] = [@ EXCEPT !.pc = "done", !.status = 500]]
    /\ UNCHANGED <<now, env, tokenVars, callers, mergeVars, postVars, wreq>>

StatusQueryOk(s) ==
    /\ sreq[s].pc = "query"
    /\ sreq' = [sreq EXCEPT ![s] = [@ EXCEPT !.pc = "done", !.status = 200]]
    /\ UNCHANGED <<now, env, tokenVars, callers, mergeVars, postVars, wreq>>

StatusQueryErr(s) ==
    /\ sreq[s].pc = "query"
    /\ sreq' = [sreq EXCEPT ![s] = [@ EXCEPT !.pc = "done", !.status = 500]]
    /\ UNCHANGED <<now, env, tokenVars, callers, mergeVars, postVars, wreq>>

(* ------------------------------ initial state ------------------------- *)
InitShared ==
    /\ now = 0
    /\ env \in [secret : BOOLEAN, tt : BOOLEAN]
    /\ dbxTokenCache = [accessToken |-> NoToken, expiresAt |-> 0]
    /\ net = [dbx |-> 0, tt |-> 0, init |-> 0]
    /\ lastRefresh = NoIssue
    /\ ttIssued = NoIssue
    /\ callers = [c \in Callers |-> IdleCaller]
    /\ mreq = [r \in MergeReqs |-> IdleMerge]
    /\ disk = {}
    /\ fileLog = [f \in AllFileIds |-> 0]
    /\ preq = [p \in PostReqs |-> IdlePost]
    /\ idem = <<>>
    /\ nextSweep = SweepIntervalMs
    /\ wreq = [w \in WakeReqs |-> IdleWake]
    /\ sreq = [s \in StatusReqs |-> IdleStatus]

TokenNext ==
    \/ \E c \in Callers : GetAccessTokenCall(c)
    \/ \E c \in Callers, ttl \in ReportedTtls : GetAccessTokenOk(c, ttl)
    \/ \E c \in Callers : GetAccessTokenErr(c)
    \/ \E c \in Callers : GetTtAccessTokenCall(c)
    \/ \E c \in Callers, ttl \in ReportedTtls : GetTtAccessTokenOk(c, ttl)
    \/ \E c \in Callers : GetTtAccessTokenErr(c)
    \/ TokenTick

\* the token functions are observed with the gate left open
TokenInit == InitShared /\ ~env.secret

TokenSpec == TokenInit /\ [][TokenNext]_vars

\* merge requests are observed with the TikTok subsystem unconfigured
MergeInit == InitShared /\ ~env.tt

MergeNext ==
    \/ \E r \in MergeReqs, secretOk \in BOOLEAN, videoUrl \in UrlKinds \cup {"none"},
          audioUrl \in UrlKinds \cup {"none"}, dropboxPath \in BOOLEAN, noStream \in BOOLEAN :
            MergeRequest(r, secretOk, videoUrl, audioUrl, dropboxPath, noStream)
    \/ \E r \in MergeReqs, ttl \in UnreportedTtl : MergeTokenOk(r, ttl)
    \/ \E r \in MergeReqs : MergeTokenErr(r)
    \/ \E r \in MergeReqs : DropboxApiOk(r)
    \/ \E r \in MergeReqs : DropboxApiErr(r)
    \/ \E r \in MergeReqs : HttpGetOk(r)
    \/ \E r \in MergeReqs : HttpGetErr(r)
    \/ \E r \in MergeReqs : PipeOk(r)
    \/ \E r \in MergeReqs : PipeErr(r)
    \/ \E r \in MergeReqs : FfmpegWrite(r)
    \/ \E r \in MergeReqs : FfmpegError(r)
    \/ \E r \in MergeReqs, endsWithMp4 \in BOOLEAN : FfmpegEnd(r, endsWithMp4)
    \/ \E r \in MergeReqs, size \in MergedSizes : UploadStat(r, size)
    \/ \E r \in MergeReqs : UploadOk(r)
    \/ \E r \in MergeReqs : UploadErr(r)
    \/ \E r \in MergeReqs : UploadOkHeaderThrows(r)
    \/ \E r \in MergeReqs, f \in FileIds : NoStreamUnlink(r, f)
    \/ \E r \in MergeReqs : StreamChunk(r)
    \/ \E r \in MergeReqs : StreamEnd(r)
    \/ \E r \in MergeReqs : ClientDisconnect(r)
    \/ \E r \in MergeReqs : CleanupUnlink(r)

MergeSpec == MergeInit /\ [][MergeNext]_vars

(* --------------------- claims on the credential cache ----------------- *)
Started(c) == callers[c].pc # "idle"
DbxCall(c) == Started(c) /\ callers[c].prov = "dbx"

\* the call started within 60 s after the completion of the latest refresh
WithinMargin(c) ==
    /\ callers[c].ref.at >= 0
    /\ callers[c].startedAt - callers[c].ref.at <= ExpiryMarginMs

\* the call started at or after the expiry of the token of the latest refresh
AfterExpiry(c) ==
    /\ callers[c].ref.at >= 0
    /\ callers[c].startedAt >=
          callers[c].ref.at + ExpiresInOrDefault(callers[c].ref.ttl) * MsPerSecond

ServedFromCache(c) ==
    /\ ~callers[c].exchanged
    /\ callers[c].pc = "done"
    /\ callers[c].result = callers[c].ref.token

\* C8 (as stated): a getAccessToken call made within 60 s of a successful
\* refresh performs no exchange of its own, whatever time-to-live the
\* provider reported, and a call made after the expiry performs one.
C8_AnyTtl ==
    \A c \in Callers : DbxCall(c) =>
        /\ WithinMargin(c) => ServedFromCache(c)
        /\ AfterExpiry(c) => callers[c].exchanged

\* C8 (amended): a getAccessToken call made within 60 s of a successful
\* refresh whose time-to-live is more than 120 s (or unreported, hence
\* 14400 s) is served from the cache without an exchange, so the refresh is
\* the only exchange of the two calls; a call made at or after the expiry
\* performs an exchange of its own.
C8_LongTtl ==
    \A c \in Callers : DbxCall(c) =>
        /\ ( WithinMargin(c)
             /\ ExpiresInOrDefault(callers[c].ref.ttl) * MsPerSecond > 2 * ExpiryMarginMs )
           => ServedFromCache(c)
        /\ AfterExpiry(c) => callers[c].exchanged

\* a refresh reporting 150 s, then a second call 30 or 60 s later served from
\* the cache: one exchange in total
C8_Witness ==
    \E c \in Callers :
        /\ DbxCall(c) /\ WithinMargin(c) /\ ServedFromCache(c)
        /\ callers[c].ref.ttl = 150
        /\ callers[c].startedAt > callers[c].ref.at
        /\ net.dbx = 1

\* C9: for each provider, a token request made while a token obtained
\* earlier is more than 60 s before its expiry performs no network call,
\* and any other request (to a configured provider) performs one exchange.
C9_BothProvidersCached ==
    \A c \in Callers :
        (Started(c) /\ (callers[c].prov = "tt" => env.tt)) =>
            (StillValid(callers[c].ref, callers[c].startedAt) <=> ~callers[c].exchanged)

\* the expiry a completed exchange stands for: its completion time plus the
\* reported time-to-live, 14400 s when none was reported
ExpiryOf(h) == h.at + (IF h.ttl = 0 THEN 14400 ELSE h.ttl) * 1000

\* C19: under every interleaving of getAccessToken calls the cache is empty
\* or holds the token of the exchange that completed last together with
\* that exchange's expiry (completion time plus time-to-live, 14400 s by
\* default); a call served from the cache got the token of the exchange
\* whose expiry admitted it, a call that exchanged got its own token.
C19_CacheHoldsOneExchange ==
    /\ \/ dbxTokenCache = [accessToken |-> NoToken, expiresAt |-> 0] /\ lastRefresh = NoIssue
       \/ /\ lastRefresh.at >= 0 /\ lastRefresh.token # NoToken
          /\ dbxTokenCache.accessToken = lastRefresh.token
          /\ dbxTokenCache.expiresAt = ExpiryOf(lastRefresh)
    /\ \A c \in Callers : (DbxCall(c) /\ callers[c].pc = "done") =>
          IF callers[c].exchanged
            THEN callers[c].result = callers[c].xid
            ELSE /\ callers[c].result = callers[c].ref.token
                 /\ callers[c].startedAt < ExpiryOf(callers[c].ref) - ExpiryMarginMs

\* two redundant refreshes raced and completed in the reverse order: the
\* cache holds the pair of the first caller, whose exchange completed last
C19_Witness ==
    /\ callers[1].exchanged /\ callers[2].exchanged
    /\ callers[1].pc = "done" /\ callers[2].pc = "done"
    /\ callers[1].prov = "dbx" /\ callers[2].prov = "dbx"
    /\ callers[1].startedAt = callers[2].startedAt
    /\ dbxTokenCache.accessToken = callers[1].xid
    /\ lastRefresh.ttl = 90
    /\ dbxTokenCache.expiresAt = now + 90000

\* C23: the step in which an exchange of getAccessToken fails leaves token
\* and expiry of the cache as they were and hands no token to the caller;
\* and a call is served from the cache only while the cached token is more
\* than 60 s before its expiry, so after a failure that left the cache
\* empty or stale the next call exchanges again.
C23_FailureKeepsCache ==
    [][ \A c \in Callers :
          /\ (callers[c].pc = "wait" /\ callers'[c].pc = "err" /\ callers[c].prov = "dbx") =>
                /\ dbxTokenCache' = dbxTokenCache
                /\ lastRefresh' = lastRefresh
                /\ callers'[c].result = NoToken
          /\ (callers[c].pc = "idle" /\ callers'[c].prov = "dbx") =>
                IF dbxTokenCache.accessToken # NoToken
                   /\ now < dbxTokenCache.expiresAt - ExpiryMarginMs
                  THEN callers'[c].pc = "done" /\ callers'[c].result = dbxTokenCache.accessToken
                  ELSE callers'[c].pc = "wait" /\ callers'[c].exchanged /\ net'.dbx = net.dbx + 1
      ]_vars

\* a refresh reported 90 s; the second call came when that token was no
\* longer served, its exchange failed, and the cache still holds the token
\* and expiry of the refresh
C23_Witness ==
    \E c \in Callers :
        /\ callers[c].pc = "err" /\ callers[c].prov = "dbx" /\ callers[c].exchanged
        /\ callers[c].ref.at >= 0 /\ callers[c].ref = lastRefresh
        /\ callers[c].startedAt > lastRefresh.at
        /\ dbxTokenCache.accessToken = lastRefresh.token
        /\ dbxTokenCache.expiresAt = lastRefresh.at + 90000

(* ------------------------- claims on POST /merge ---------------------- *)
\* every step a merge request can take
MergeStep(r) ==
    \/ \E ttl \in UnreportedTtl : MergeTokenOk(r, ttl)
    \/ MergeTokenErr(r) \/ DropboxApiOk(r) \/ DropboxApiErr(r)
    \/ HttpGetOk(r) \/ HttpGetErr(r) \/ PipeOk(r) \/ PipeErr(r)
    \/ FfmpegWrite(r) \/ FfmpegError(r)
    \/ \E endsWithMp4 \in BOOLEAN : FfmpegEnd(r, endsWithMp4)
    \/ \E size \in MergedSizes : UploadStat(r, size)
    \/ UploadOk(r) \/ UploadErr(r) \/ UploadOkHeaderThrows(r)
    \/ \E f \in FileIds : NoStreamUnlink(r, f)
    \/ StreamChunk(r) \/ StreamEnd(r) \/ ClientDisconnect(r) \/ CleanupUnlink(r)

\* the temp files of request r that are still in TEMP_DIR
Leftover(r) == mreq[r].made \cap disk

\* the request was accepted and has nothing left to do
Settled(r) == mreq[r].pc # "idle" /\ ~ENABLED MergeStep(r)

\* C1: when the 500 of a failed /merge request is sent, none of the temp
\* files the request created (completely or partly written) remains.
C1_NoLeakAfter500 ==
    \A r \in MergeReqs : mreq[r].status = 500 => Leftover(r) = {}

\* C2: a streaming /merge request whose client dropped the connection
\* during the stream ends with its temp files removed.
C2_DisconnectCleansUp ==
    \A r \in MergeReqs : (mreq[r].closed /\ Settled(r)) => Leftover(r) = {}

\* C3: once a /merge request has nothing left to do, each temp file it
\* created has been released exactly once; no file is ever released twice.
C3_ReleasedExactlyOnce ==
    /\ \A f \in FileIds : fileLog[f] <= 1
    /\ \A r \in MergeReqs : Settled(r) => \A f \in mreq[r].made : fileLog[f] = 1

\* C4: when the 200 acknowledgment of a noStream /merge request is sent, the
\* video, audio and merged temp files have all been removed.
C4_NoStreamCleanBeforeAck ==
    \A r \in MergeReqs : (mreq[r].noStream /\ mreq[r].status = 200) =>
        /\ mreq[r].made = {TmpPath(r, "v"), TmpPath(r, "a"), TmpPath(r, "m")}
        /\ Leftover(r) = {}

C4_Witness ==
    \E r \in MergeReqs :
        /\ mreq[r].noStream /\ mreq[r].status = 200 /\ mreq[r].pc = "done"
        /\ mreq[r].header
        /\ \A f \in mreq[r].made : fileLog[f] = 1

\* C10: a /merge request (let through by the shared-secret gate) that lacks
\* videoUrl or audioUrl is answered 400 at once and has started no token
\* exchange, download, merge or upload and created no temp file.
C10_MissingUrl400 ==
    \A r \in MergeReqs :
      ((~mreq[r].hasVideo \/ ~mreq[r].hasAudio) /\ mreq[r].pc # "idle" /\ mreq[r].status # 401) =>
        /\ mreq[r].pc = "done" /\ mreq[r].status = 400
        /\ mreq[r].made = {} /\ mreq[r].uploads = 0 /\ mreq[r].xid = 0
        /\ mreq[r].cur = "none"
        /\ mreq[r].vPath = NoFile /\ mreq[r].aPath = NoFile /\ mreq[r].mPath = NoFile

C10_Witness ==
    \E r \in MergeReqs :
        mreq[r].hasVideo /\ ~mreq[r].hasAudio /\ mreq[r].status = 400 /\ disk = {}

\* the stages of a request in the order of the handler: video download,
\* audio download, merge, upload, delivery (byte stream or acknowledgment)
StageOrder == <<"v", "a", "m", "u", "d">>
StageIndex(s) == CHOOSE i \in 1..Len(StageOrder) : StageOrder[i] = s

\* C11: once a stage of a /merge request has failed, the failed stage is the
\* last one the request ever started, no stage was started twice, the
\* upload call was invoked at most once, and the only response is a 500
\* (never a 200, no X-Dropbox-Path header after a failed upload).
C11_FailureAborts ==
    \A r \in MergeReqs : mreq[r].failed # "none" =>
        /\ mreq[r].started # <<>>
        /\ mreq[r].started[Len(mreq[r].started)] = mreq[r].failed
        /\ \A i, j \in 1..Len(mreq[r].started) :
              i < j => StageIndex(mreq[r].started[i]) < StageIndex(mreq[r].started[j])
        /\ mreq[r].uploads <= 1
        /\ mreq[r].pc \in {"catch", "done"}
        /\ mreq[r].status = IF mreq[r].pc = "done" THEN 500 ELSE 0
        /\ ~mreq[r].header

\* a request whose upload call failed after two downloads and the merge
C11_Witness ==
    \E r \in MergeReqs :
        /\ mreq[r].failed = "u" /\ mreq[r].uploads = 1
        /\ mreq[r].started = <<"v", "a", "m", "u">>
        /\ mreq[r].pc = "done" /\ mreq[r].status = 500

(* ------------------------- the four gated routes ----------------------- *)
\* requests received so far on the four gated routes
RouteStarted ==
    Cardinality({r \in MergeReqs : mreq[r].pc # "idle"})
    + Cardinality({p \in PostReqs : preq[p].pc # "idle"})
    + Cardinality({w \in WakeReqs : wreq[w].pc # "idle"})
    + Cardinality({s \in StatusReqs : sreq[s].pc # "idle"})

RouteInit == InitShared

\* the arrival of requests on all four routes, and what /wake and
\* /tiktok/status do with theirs
RouteNext ==
    \/ /\ RouteStarted < MaxRouteRequests
       /\ \E r \in MergeReqs, secretOk \in BOOLEAN, videoUrl \in {"dbxPath", "none"} :
             MergeRequest(r, secretOk, videoUrl, "http", FALSE, FALSE)
    \/ /\ RouteStarted < MaxRouteRequests
       /\ \E p \in PostReqs, secretOk \in BOOLEAN, fields \in BOOLEAN :
             PostRequest(p, secretOk, fields, NoKey)
    \/ /\ RouteStarted < MaxRouteRequests
       /\ \E w \in WakeReqs, secretOk \in BOOLEAN : WakeRequest(w, secretOk)
    \/ /\ RouteStarted < MaxRouteRequests
       /\ \E s \in StatusReqs, secretOk \in BOOLEAN, hasId \in BOOLEAN :
             StatusRequest(s, secretOk, hasId)
    \/ \E w \in WakeReqs, ttl \in UnreportedTtl : WakeDbxOk(w, ttl)
    \/ \E w \in WakeReqs : WakeDbxErr(w)
    \/ \E w \in WakeReqs : WakeTtOk(w)
    \/ \E w \in WakeReqs : WakeTtErr(w)
    \/ \E s \in StatusReqs : StatusTtTokenOk(s)
    \/ \E s \in StatusReqs : StatusTtTokenErr(s)
    \/ \E s \in StatusReqs : StatusQueryOk(s)
    \/ \E s \in StatusReqs : StatusQueryErr(s)

RouteSpec == RouteInit /\ [][RouteNext]_vars

\* the request was received with a secret configured and a header that
\* does not equal it
WrongSecret(rec) == rec.pc # "idle" /\ env.secret /\ ~rec.secretOk

\* received requests are answered 401 exactly when the secret is configured
\* and the header differs, and a request answered 401 holds nothing of what
\* its handler would have started
GateDecides ==
    /\ \A r \in MergeReqs : mreq[r].pc # "idle" =>
          /\ (mreq[r].status = 401) <=> WrongSecret(mreq[r])
          /\ mreq[r].status = 401 =>
                /\ mreq[r].pc = "done" /\ mreq[r].xid = 0 /\ mreq[r].made = {}
                /\ mreq[r].started = <<>> /\ mreq[r].uploads = 0
    /\ \A p \in PostReqs : preq[p].pc # "idle" =>
          /\ (preq[p].status = 401) <=> WrongSecret(preq[p])
          /\ preq[p].status = 401 =>
                /\ preq[p].pc = "done" /\ preq[p].xid = 0 /\ preq[p].made = {}
                /\ preq[p].inits = 0 /\ preq[p].localPath = NoFile /\ ~preq[p].cached
    /\ \A w \in WakeReqs : wreq[w].pc # "idle" =>
          /\ (wreq[w].status = 401) <=> WrongSecret(wreq[w])
          /\ wreq[w].status = 401 =>
                /\ wreq[w].pc = "done" /\ wreq[w].xid = 0
                /\ wreq[w].dbx = "none" /\ wreq[w].tt = "none"
    /\ \A s \in StatusReqs : sreq[s].pc # "idle" =>
          /\ (sreq[s].status = 401) <=> WrongSecret(sreq[s])
          /\ sreq[s].status = 401 => (sreq[s].pc = "done" /\ sreq[s].xid = 0)

\* this step receives a request that carries a wrong secret
ReceivesWrongSecret ==
    \/ \E r \in MergeReqs : mreq[r].pc = "idle" /\ WrongSecret(mreq[r])'
    \/ \E p \in PostReqs : preq[p].pc = "idle" /\ WrongSecret(preq[p])'
    \/ \E w \in WakeReqs : wreq[w].pc = "idle" /\ WrongSecret(wreq[w])'
    \/ \E s \in StatusReqs : sreq[s].pc = "idle" /\ WrongSecret(sreq[s])'

\* C12: with a secret configured, a request on /wake, /merge, /tiktok/post or
\* /tiktok/status whose X-App-Secret header differs from it is answered 401,
\* and receiving it changes neither the token cache, the count of network
\* calls, the temp files nor the idempotency map; without a configured
\* secret no request is answered 401.
C12_GateRejects ==
    [][ /\ GateDecides'
        /\ ReceivesWrongSecret =>
              UNCHANGED <<dbxTokenCache, net, lastRefresh, disk, fileLog, idem, nextSweep>>
      ]_vars

\* a secret is configured; a /merge and a /tiktok/status request with a
\* wrong header were turned away while a /wake request with the right one
\* passed, and the only network calls are those of the /wake request
C12_Witness ==
    /\ env.secret /\ env.tt
    /\ \E r \in MergeReqs : mreq[r].status = 401
    /\ \E s \in StatusReqs : sreq[s].status = 401
    /\ \E w \in WakeReqs : wreq[w].secretOk /\ wreq[w].status = 200
    /\ net = [dbx |-> 1, tt |-> 1, init |-> 0]

\* C13: a /wake request let through by the gate starts getAccessToken
\* (an exchange unless the cache is valid) and, when the TikTok triple is
\* set, getTtAccessToken; it answers 200 {ok: true} exactly when every
\* started task has settled, also when one or both of them failed, and it
\* never answers with an error.
C13_WakeBestEffort ==
    \A w \in WakeReqs : (wreq[w].pc # "idle" /\ wreq[w].status # 401) =>
        /\ wreq[w].dbx \in {"hit", "wait", "ok", "err"}
        /\ wreq[w].tt \in (IF env.tt THEN {"wait", "ok", "err"} ELSE {"skip"})
        /\ (wreq[w].dbx # "wait" /\ wreq[w].tt # "wait")
              <=> (wreq[w].pc = "done" /\ wreq[w].status = 200 /\ wreq[w].body = "ok")
        /\ wreq[w].status \in {0, 200}
        /\ wreq[w].body \in {"none", "ok"}

\* the Dropbox exchange failed, the TikTok exchange was made all the same
\* and succeeded, and the answer is {ok: true}
C13_Witness ==
    \E w \in WakeReqs :
        /\ wreq[w].dbx = "err" /\ wreq[w].tt = "ok"
        /\ wreq[w].status = 200 /\ wreq[w].body = "ok"

\* C14: a merged file of more than 150 * 1024 * 1024 bytes is never handed
\* to filesUpload and its request is answered 500, while a file of exactly
\* that size or less is handed to filesUpload (once).
C14_UploadLimit ==
    \A r \in MergeReqs : mreq[r].sized # "none" =>
        IF mreq[r].sized = "over"
          THEN /\ mreq[r].uploads = 0 /\ mreq[r].uploadedTo = <<>>
               /\ mreq[r].failed = "u" /\ ~mreq[r].header
               /\ mreq[r].pc \in {"catch", "done"}
               /\ mreq[r].status = IF mreq[r].pc = "done" THEN 500 ELSE 0
          ELSE mreq[r].uploads = 1 /\ mreq[r].uploadedTo = mreq[r].savedPath

\* a file over the limit: 500 without any upload call
C14_Witness ==
    \E r \in MergeReqs :
        /\ mreq[r].sized = "over" /\ mreq[r].uploads = 0
        /\ mreq[r].pc = "done" /\ mreq[r].status = 500

\* C15: a 200 of a /merge request that supplied dropboxPath carries
\* X-Dropbox-Path, the header is present only once filesUpload has resolved
\* and its value is the path filesUpload was called with; a request
\* without dropboxPath never calls filesUpload and never carries the header.
C15_HeaderIffUploaded ==
    \A r \in MergeReqs :
        /\ (mreq[r].status = 200 /\ mreq[r].dropboxPath) => mreq[r].header
        /\ mreq[r].header =>
              /\ mreq[r].uploads = 1 /\ mreq[r].failed = "none"
              /\ mreq[r].uploaded /\ mreq[r].uploadedTo # <<>>
              /\ mreq[r].xDropboxPath = mreq[r].uploadedTo
              /\ mreq[r].pc \notin {"tok", "stat", "upload"}
        /\ ~mreq[r].dropboxPath =>
              /\ mreq[r].uploads = 0 /\ ~mreq[r].header
              /\ mreq[r].xDropboxPath = <<>> /\ "u" \notin {mreq[r].started[i] : i \in DOMAIN mreq[r].started}

\* a streamed 200 whose header names the file created inside the folder
C15_Witness ==
    \E r \in MergeReqs :
        /\ mreq[r].dropboxPath /\ mreq[r].status = 200 /\ ~mreq[r].noStream
        /\ mreq[r].header /\ mreq[r].xDropboxPath = <<"dropboxPath", "merged", now>>

\* the stages request r has started, as a set
StartedStages(r) == {mreq[r].started[i] : i \in DOMAIN mreq[r].started}

\* the stages of request r were started in the order of the handler: the
\* merge after both downloads returned their paths, the upload after the
\* merge returned its path, the delivery after the upload (if any) resolved
StagesInOrder(r) ==
    /\ \A i, j \in DOMAIN mreq[r].started :
          i < j => StageIndex(mreq[r].started[i]) < StageIndex(mreq[r].started[j])
    /\ "a" \in StartedStages(r) => mreq[r].vPath # NoFile
    /\ "m" \in StartedStages(r) => (mreq[r].vPath # NoFile /\ mreq[r].aPath # NoFile)
    /\ "u" \in StartedStages(r) => (mreq[r].mPath # NoFile /\ mreq[r].dropboxPath)
    /\ "d" \in StartedStages(r) =>
          /\ mreq[r].mPath # NoFile
          /\ mreq[r].dropboxPath => mreq[r].uploaded

\* C16: an accepted /merge request starts its stages in the order download,
\* download, merge, (upload), delivery, and it can come to rest only in Done
\* with a response sent: whenever none of its steps is left to take, the
\* handler (cleanup included) has finished.
C16_OrderedAndCompletes ==
    \A r \in MergeReqs : mreq[r].pc # "idle" =>
        /\ StagesInOrder(r)
        /\ Settled(r) => (mreq[r].pc = "done" /\ mreq[r].status # 0)

\* the request has begun to stream the merged file
Streams(r) == ~mreq[r].noStream /\ mreq[r].status = 200

\* C17: once a /merge request has begun to stream, its three temp files stay
\* in place while the stream is being read (or is stalled), every removal
\* of one of them is a step of the close handler of the read stream, and
\* the catch block of the handler never runs.
C17_ReleaseOnlyOnClose ==
    [][ \A r \in MergeReqs : Streams(r)' =>
          /\ mreq'[r].pc \in {"streaming", "stalled"} =>
                Leftover(r)' = {TmpPath(r, "v"), TmpPath(r, "a"), TmpPath(r, "m")}
          /\ (Streams(r) /\ Leftover(r)' # Leftover(r)) =>
                (mreq[r].pc = "close" /\ mreq[r].chunks > 0)
          /\ mreq'[r].pc # "catch" /\ mreq'[r].failed = "none"
      ]_vars

\* a streamed request whose close handler has removed the video file and
\* still holds the merged file it read
C17_Witness ==
    \E r \in MergeReqs :
        /\ Streams(r) /\ mreq[r].pc = "close" /\ mreq[r].chunks > 0
        /\ Leftover(r) = {TmpPath(r, "a"), TmpPath(r, "m")}

\* C22: a /merge request holds a merged path, uploads or delivers only after
\* ffmpeg emitted "end"; after ffmpeg's "error" event the merge has failed
\* and the request neither uploads nor delivers, also when ffmpeg's output
\* file is on disk.
C22_MergeByEvent ==
    \A r \in MergeReqs :
        /\ ( \/ mreq[r].mPath # NoFile
             \/ StartedStages(r) \cap {"u", "d"} # {}
             \/ mreq[r].uploads > 0 \/ mreq[r].status = 200 )
           => mreq[r].ffmpeg = "end"
        /\ mreq[r].ffmpeg = "error" =>
              /\ mreq[r].failed = "m" /\ mreq[r].mPath = NoFile
              /\ StartedStages(r) \cap {"u", "d"} = {}
              /\ mreq[r].uploads = 0 /\ ~mreq[r].uploaded /\ mreq[r].chunks = 0
              /\ mreq[r].pc \in {"catch", "done"}
              /\ mreq[r].status = IF mreq[r].pc = "done" THEN 500 ELSE 0

\* ffmpeg failed after it had begun to write its output: the file is on
\* disk and the request was answered 500 without upload or delivery
C22_Witness ==
    \E r \in MergeReqs :
        /\ mreq[r].ffmpeg = "error" /\ TmpPath(r, "m") \in disk
        /\ mreq[r].dropboxPath /\ mreq[r].uploads = 0
        /\ mreq[r].pc = "done" /\ mreq[r].status = 500

(* -------------------- concurrent POST /merge requests ------------------ *)
\* requests that run at the same time
ConcReqs == 1..NumConcurrent
ConcFileIds == {TmpPath(r, Roles[i]) : r \in ConcReqs, i \in 1..3}

ConcInit ==
    /\ now = 0
    /\ env = [secret |-> FALSE, tt |-> FALSE]
    /\ dbxTokenCache = [accessToken |-> NoToken, expiresAt |-> 0]
    /\ net = [dbx |-> 0, tt |-> 0, init |-> 0]
    /\ lastRefresh = NoIssue
    /\ ttIssued = NoIssue
    /\ callers = [c \in Callers |-> IdleCaller]
    /\ mreq = [r \in ConcReqs |-> IdleMerge]
    /\ disk = {}
    /\ fileLog = [f \in ConcFileIds |-> 0]
    /\ preq = [p \in PostReqs |-> IdlePost]
    /\ idem = <<>>
    /\ nextSweep = SweepIntervalMs
    /\ wreq = [w \in WakeReqs |-> IdleWake]
    /\ sreq = [s \in StatusReqs |-> IdleStatus]

\* requests for sources fetched over plain http, without dropboxPath, in
\* both delivery modes, interleaved step by step
ConcNext ==
    \/ \E r \in ConcReqs, noStream \in BOOLEAN :
            MergeRequest(r, FALSE, "http", "http", FALSE, noStream)
    \/ \E r \in ConcReqs : HttpGetOk(r)
    \/ \E r \in ConcReqs : HttpGetErr(r)
    \/ \E r \in ConcReqs : PipeOk(r)
    \/ \E r \in ConcReqs : PipeErr(r)
    \/ \E r \in ConcReqs : FfmpegWrite(r)
    \/ \E r \in ConcReqs : FfmpegError(r)
    \/ \E r \in ConcReqs : FfmpegEnd(r, FALSE)
    \/ \E r \in ConcReqs, f \in ConcFileIds : NoStreamUnlink(r, f)
    \/ \E r \in ConcReqs : StreamChunk(r)
    \/ \E r \in ConcReqs : StreamEnd(r)
    \/ \E r \in ConcReqs : ClientDisconnect(r)
    \/ \E r \in ConcReqs : CleanupUnlink(r)

ConcSpec == ConcInit /\ [][ConcNext]_vars

\* C20: the temp files of concurrently running /merge requests are pairwise
\* distinct, and every step that removes a file from TEMP_DIR is a step of
\* the request that created the file and of no other request.
C20_OwnFilesOnly ==
    [][ /\ \A r, q \in ConcReqs : r # q => mreq'[r].made \cap mreq'[q].made = {}
        /\ \A f \in disk \ disk' :
              \E r \in ConcReqs :
                  /\ f \in mreq[r].made /\ mreq'[r] # mreq[r]
                  /\ \A q \in ConcReqs \ {r} : mreq'[q] = mreq[q] /\ f \notin mreq[q].made
      ]_vars

\* one request has finished and removed its three files while the three
\* files of another, still streaming, are all in place
C20_Witness ==
    \E r, q \in ConcReqs :
        /\ r # q
        /\ mreq[r].pc = "done" /\ mreq[r].status = 200 /\ Cardinality(mreq[r].made) = 3
        /\ mreq[r].made \cap disk = {}
        /\ mreq[q].pc = "streaming" /\ mreq[q].chunks > 0
        /\ Cardinality(mreq[q].made \cap disk) = 3

PostInit == InitShared

PostNext ==
    \/ \E p \in PostReqs, secretOk \in BOOLEAN, fields \in BOOLEAN, key \in Keys \cup {NoKey} :
            PostRequest(p, secretOk, fields, key)
    \/ \E p \in PostReqs, ttl \in UnreportedTtl : PostTokenOk(p, ttl)
    \/ \E p \in PostReqs : PostTokenErr(p)
    \/ \E p \in PostReqs : PostLinkOk(p)
    \/ \E p \in PostReqs : PostLinkErr(p)
    \/ \E p \in PostReqs : PostGetOk(p)
    \/ \E p \in PostReqs : PostGetErr(p)
    \/ \E p \in PostReqs : PostPipeOk(p)
    \/ \E p \in PostReqs : PostPipeErr(p)
    \/ \E p \in PostReqs : PostTtTokenOk(p)
    \/ \E p \in PostReqs : PostTtTokenErr(p)
    \/ \E p \in PostReqs : PostInitOk(p)
    \/ \E p \in PostReqs : PostInitErr(p)
    \/ \E p \in PostReqs : PostUploadOk(p)
    \/ \E p \in PostReqs : PostUploadErr(p)
    \/ \E p \in PostReqs : PostUnlink(p)
    \/ \E d \in PostTickSteps : PostTick(d)

PostSpec == PostInit /\ [][PostNext]_vars

(* ---------------------- claims on POST /tiktok/post -------------------- *)
\* C5: of two /tiktok/post calls with the same Idempotency-Key (and the
\* same body) that are both answered with a publish_id, the second returns
\* the publish_id of the first, and publish-init is invoked at most once
\* across the two.
C5_SecondCallSameId ==
    \A p, q \in PostReqs :
        ( /\ p < q
          /\ preq[p].key # NoKey /\ preq[p].key = preq[q].key
          /\ preq[p].status = 200 /\ preq[q].status = 200 )
        => /\ preq[q].publish_id = preq[p].publish_id
           /\ preq[p].inits + preq[q].inits <= 1

\* C6: a record of the idempotency map is never overwritten with another
\* publish_id while it exists.
C6_RecordNeverOverwritten ==
    [][ \A k \in DOMAIN idem \cap DOMAIN idem' :
            idem'[k].publish_id = idem[k].publish_id ]_vars

\* C7: no /tiktok/post call is answered from a record older than 6 hours.
C7_StaleNeverServed ==
    \A p \in PostReqs : preq[p].cached => preq[p].age <= RetentionMs

KeyInUse(k) == \E p \in PostReqs : preq[p].key = k
KeyChoices == {k \in Keys : \A j \in Keys : j < k => KeyInUse(j)}

\* keyed publish requests whose external calls all succeed, with the gate left
\* open, TikTok configured and the clock moving in steps of six hours, so
\* that sweeps purge what earlier requests inserted
KeysInit == InitShared /\ ~env.secret /\ env.tt

KeysNext ==
    \/ \E p \in PostReqs, key \in KeyChoices : PostRequest(p, FALSE, TRUE, key)
    \/ \E p \in PostReqs, ttl \in UnreportedTtl : PostTokenOk(p, ttl)
    \/ \E p \in PostReqs : PostLinkOk(p)
    \/ \E p \in PostReqs : PostGetOk(p)
    \/ \E p \in PostReqs : PostPipeOk(p)
    \/ \E p \in PostReqs : PostTtTokenOk(p)
    \/ \E p \in PostReqs : PostInitOk(p)
    \/ \E p \in PostReqs : PostUploadOk(p)
    \/ \E p \in PostReqs : PostUnlink(p)
    \/ PostTick(RetentionMs)

KeysSpec == KeysInit /\ [][KeysNext]_vars

\* the request carried a key and completed its publish (it was not answered
\* from a record)
Published(p) == preq[p].key # NoKey /\ preq[p].status = 200 /\ ~preq[p].cached

\* C21: a /tiktok/post request that completed its publish under a key no
\* other publishing request used finds, for six hours after its insert, the
\* record of its key holding its own publish_id, whatever requests with
\* other keys inserted before, between or after.
C21_NoInsertLost ==
    \A p \in PostReqs :
        ( /\ Published(p)
          /\ \A q \in PostReqs \ {p} : Published(q) => preq[q].key # preq[p].key
          /\ now - preq[p].setAt <= RetentionMs )
        => /\ Recorded(preq[p].key)
           /\ idem[preq[p].key] = [publish_id |-> preq[p].publish_id, at |-> preq[p].setAt]

\* two requests with different keys ran at the same time, both completed
\* their publish, and both records are in the map
C21_Witness ==
    \E p, q \in PostReqs :
        /\ Published(p) /\ Published(q) /\ preq[p].key # preq[q].key
        /\ preq[p].pc = "unlink" /\ preq[q].pc = "unlink"
        /\ preq[p].publish_id # preq[q].publish_id
        /\ DOMAIN idem = {preq[p].key, preq[q].key}

(* ------------------ publish requests that run to their end ------------- *)
\* every step request p takes after its arrival
PostStep(p) ==
    \/ \E ttl \in UnreportedTtl : PostTokenOk(p, ttl)
    \/ PostTokenErr(p) \/ PostLinkOk(p) \/ PostLinkErr(p)
    \/ PostGetOk(p) \/ PostGetErr(p) \/ PostPipeOk(p) \/ PostPipeErr(p)
    \/ PostTtTokenOk(p) \/ PostTtTokenErr(p) \/ PostInitOk(p) \/ PostInitErr(p)
    \/ PostUploadOk(p) \/ PostUploadErr(p) \/ PostUnlink(p)

PostLiveInit == InitShared /\ ~env.secret

\* no /tiktok/post request is between its arrival and its end
NoneInFlight == \A q \in PostReqs : preq[q].pc \in {"idle", "done"}

\* the requests are taken one after the other: the temp file of a request
\* has a name of its own, and what a request finds in idem is what the
\* requests that ended before it left there
PostLiveNext ==
    \/ \E p \in PostReqs, fields \in BOOLEAN, key \in KeyChoices \cup {NoKey} :
            NoneInFlight /\ PostRequest(p, FALSE, fields, key)
    \/ \E p \in PostReqs, ttl \in UnreportedTtl : PostTokenOk(p, ttl)
    \/ \E p \in PostReqs : PostTokenErr(p)
    \/ \E p \in PostReqs : PostLinkOk(p)
    \/ \E p \in PostReqs : PostLinkErr(p)
    \/ \E p \in PostReqs : PostGetOk(p)
    \/ \E p \in PostReqs : PostGetErr(p)
    \/ \E p \in PostReqs : PostPipeOk(p)
    \/ \E p \in PostReqs : PostPipeErr(p)
    \/ \E p \in PostReqs : PostTtTokenOk(p)
    \/ \E p \in PostReqs : PostTtTokenErr(p)
    \/ \E p \in PostReqs : PostInitOk(p)
    \/ \E p \in PostReqs : PostInitErr(p)
    \/ \E p \in PostReqs : PostUploadOk(p)
    \/ \E p \in PostReqs : PostUploadErr(p)
    \/ \E p \in PostReqs : PostUnlink(p)

\* every external call a request waits for is answered or fails in the
\* end, and an unlink that was started completes
PostLiveSpec ==
    PostLiveInit /\ [][PostLiveNext]_vars /\ \A p \in PostReqs : WF_vars(PostStep(p))

\* the request was answered from a record, or turned away with a 400
AnsweredAtOnce(p) == preq[p].cached \/ preq[p].status = 400

\* C24: the temp file of a /tiktok/post request, once created, is removed in
\* the end, and it is gone when the handler is done, whatever call failed;
\* a request answered from the idempotency record or with a 400 created no
\* temp file and its arrival made no external call.
C24_TempFileReleased ==
    /\ [](\A p \in PostReqs :
            /\ preq[p].pc = "done" => PostTmpPath(p) \notin disk
            /\ AnsweredAtOnce(p) =>
                  /\ preq[p].pc = "done" /\ preq[p].made = {}
                  /\ preq[p].localPath = NoFile
                  /\ preq[p].xid = 0 /\ preq[p].inits = 0)
    /\ [][ \A p \in PostReqs :
              (preq[p].pc = "idle" /\ AnsweredAtOnce(p)') => (net' = net /\ disk' = disk) ]_vars
    /\ \A p \in PostReqs : (PostTmpPath(p) \in disk) ~> (PostTmpPath(p) \notin disk)

\* one request failed after its file had been created (500) and the file
\* has been removed; another request was turned away with a 400
C24_Witness ==
    \E p, q \in PostReqs :
        /\ preq[p].status = 500 /\ preq[p].pc = "done"
        /\ PostTmpPath(p) \in preq[p].made /\ PostTmpPath(p) \notin disk
        /\ fileLog[PostTmpPath(p)] = 1
        /\ preq[q].status = 400 /\ preq[q].made = {}

(* --------------------- who writes the idempotency map ------------------ *)
\* requests received so far on /merge, /wake and /tiktok/status
OtherStarted ==
    Cardinality({r \in MergeReqs : mreq[r].pc # "idle"})
    + Cardinality({w \in WakeReqs : wreq[w].pc # "idle"})
    + Cardinality({s \in StatusReqs : sreq[s].pc # "idle"})

\* no request of any route is between its arrival and its end
Quiet ==
    /\ NoneInFlight
    /\ \A r \in MergeReqs : mreq[r].pc \in {"idle", "done"}
    /\ \A w \in WakeReqs : wreq[w].pc \in {"idle", "done"}
    /\ \A s \in StatusReqs : sreq[s].pc \in {"idle", "done"}

\* the requests of the other routes are taken while the map holds a record
OtherMayArrive == Quiet /\ OtherStarted < MaxOtherRoutes /\ idem # <<>>

IdemInit == InitShared /\ ~env.secret

\* /tiktok/post, /wake and /tiktok/status with all their steps, /merge
\* requests that are turned away for their missing video URL, and the clock
\* with its sweep; the requests are taken one after the other
IdemNext ==
    \/ \E p \in 1..NumSolo, fields \in BOOLEAN, key \in KeyChoices \cup {NoKey} :
            Quiet /\ PostRequest(p, FALSE, fields, key)
    \/ \E p \in PostReqs, ttl \in UnreportedTtl : PostTokenOk(p, ttl)
    \/ \E p \in PostReqs : PostTokenErr(p)
    \/ \E p \in PostReqs : PostLinkOk(p)
    \/ \E p \in PostReqs : PostLinkErr(p)
    \/ \E p \in PostReqs : PostGetOk(p)
    \/ \E p \in PostReqs : PostGetErr(p)
    \/ \E p \in PostReqs : PostPipeOk(p)
    \/ \E p \in PostReqs : PostPipeErr(p)
    \/ \E p \in PostReqs : PostTtTokenOk(p)
    \/ \E p \in PostReqs : PostTtTokenErr(p)
    \/ \E p \in PostReqs : PostInitOk(p)
    \/ \E p \in PostReqs : PostInitErr(p)
    \/ \E p \in PostReqs : PostUploadOk(p)
    \/ \E p \in PostReqs : PostUploadErr(p)
    \/ \E p \in PostReqs : PostUnlink(p)
    \/ \E d \in {RetentionMs} : PostTick(d)
    \/ /\ OtherMayArrive
       /\ \E r \in MergeReqs : MergeRequest(r, FALSE, "none", "http", FALSE, FALSE)
    \/ /\ OtherMayArrive
       /\ \E w \in WakeReqs : WakeRequest(w, FALSE)
    \/ /\ OtherMayArrive
       /\ \E s \in StatusReqs, hasId \in BOOLEAN : StatusRequest(s, FALSE, hasId)
    \/ \E w \in WakeReqs, ttl \in UnreportedTtl : WakeDbxOk(w, ttl)
    \/ \E w \in WakeReqs : WakeDbxErr(w)
    \/ \E w \in WakeReqs : WakeTtOk(w)
    \/ \E w \in WakeReqs : WakeTtErr(w)
    \/ \E s \in StatusReqs : StatusTtTokenOk(s)
    \/ \E s \in StatusReqs : StatusTtTokenErr(s)
    \/ \E s \in StatusReqs : StatusQueryOk(s)
    \/ \E s \in StatusReqs : StatusQueryErr(s)

IdemSpec == IdemInit /\ [][IdemNext]_vars

\* request p is about to be answered 200 after the token, the link, the
\* download, the publish-init and the upload have all succeeded
CompletesPublish(p) ==
    /\ preq[p].pc = "upload" /\ preq'[p].status = 200
    /\ PostTmpPath(p) \in preq[p].made /\ preq[p].inits = 1
    /\ preq[p].pub # NoPublish

\* C25: a step that changes the idempotency map is either the last step of
\* a /tiktok/post request that carried a key and went through the whole
\* publish protocol, which adds that key with its publish_id and the time
\* and touches no other entry, or the passing of time with a sweep, which
\* only removes entries older than six hours; what a failed, keyless or
\* cached request and what /merge, /wake and /tiktok/status do leaves it
\* as it is.
C25_IdemWriters ==
    [][ idem' # idem =>
          \/ \E p \in PostReqs :
                /\ CompletesPublish(p) /\ preq[p].key # NoKey /\ ~preq[p].cached
                /\ now' = now
                /\ DOMAIN idem' = DOMAIN idem \cup {preq[p].key}
                /\ idem'[preq[p].key] = [publish_id |-> preq[p].pub, at |-> now]
                /\ \A k \in DOMAIN idem \ {preq[p].key} : idem'[k] = idem[k]
                /\ \A q \in PostReqs \ {p} : preq'[q] = preq[q]
                /\ mreq' = mreq /\ wreq' = wreq /\ sreq' = sreq
          \/ /\ now' > now
             /\ preq' = preq /\ mreq' = mreq /\ wreq' = wreq /\ sreq' = sreq
             /\ DOMAIN idem' \subseteq DOMAIN idem
             /\ \A k \in DOMAIN idem' : idem'[k] = idem[k]
             /\ \A k \in DOMAIN idem \ DOMAIN idem' : now' - idem[k].at > RetentionMs ]_vars

\* the record of a keyed publish was added, a request of another route
\* has ended since, then the record was swept, and the map is empty
C25_Witness ==
    /\ idem = <<>>
    /\ \E p \in PostReqs :
          /\ preq[p].status = 200 /\ preq[p].key # NoKey /\ ~preq[p].cached
          /\ preq[p].pc = "done" /\ now - preq[p].setAt > RetentionMs
    /\ OtherStarted > 0 /\ Quiet

====
